---- MODULE Spec2Model ----
(***************************************************************************)
(* The gliff SDK (src/gliff.py, src/gliff/gliff.py) as a state machine:    *)
(* an etebase store holding, per project, one gallery document and a set   *)
(* of items, and Gliff sessions that bind a project, cache its collection, *)
(* and run upload_image / upload_annotation as sequences of blocking       *)
(* round trips to the store.  Sessions interleave between round trips.     *)
(***************************************************************************)
EXTENDS Integers, Sequences, FiniteSets, TLC

\* ---------------------------------------------------------------- bounds
\* Item uids the store hands out (item_mng.create), over all sessions.
MaxItems == 3
\* API calls started, over all sessions.
MaxCalls == 3
\* Pending incoming invitations of the account that logs in.
MaxInvitations == 3

\* ------------------------------------------------------------ input sets
Sessions == {"s1", "s2"}
Projects == {"pA", "pB"}
Usernames == {"alice", "bob"}
Accounts == {"acct1", "acct2"}
Uids == 1 .. MaxItems
NoUid == 0

\* Python's None / a value: the empty tuple or a one-element tuple.
None == << >>
Some(v) == << v >>
IsNone(o) == Len(o) = 0
The(o) == o[1]

\* A dict: a function on a finite set of keys.
EmptyDict == [k \in {} |-> 0]
\* dict.update / {**a, **b}: keys of b overwrite, other keys of a are kept.
dict_update(a, b) ==
    [k \in (DOMAIN a) \cup (DOMAIN b) |-> IF k \in DOMAIN b THEN b[k] ELSE a[k]]

\* -------------------------------------------------------------- annotations
\* create_annotation's fields that is_empty_annotation reads.
Annotation(toolbox, coordinates, brushStrokes, topLeftX) ==
    [toolbox |-> toolbox,
     spline |-> [coordinates |-> coordinates],
     brushStrokes |-> brushStrokes,
     boundingBox |-> [coordinates |-> [topLeft |-> [x |-> topLeftX]]]]

\* create_annotation with its defaults: the empty annotation.
empty_ann == Annotation("paintbrush", << >>, << >>, None)
ann_spline == Annotation("spline", << 1, 2 >>, << >>, None)
ann_brush == Annotation("paintbrush", << >>, << 7 >>, None)
ann_box == Annotation("boundingBox", << >>, << >>, Some(5))

is_empty_annotation(annotation) ==
    /\ Len(annotation.spline.coordinates) = 0
    /\ Len(annotation.brushStrokes) = 0
    /\ IsNone(annotation.boundingBox.coordinates.topLeft.x)

\* The annotation lists a caller uploads.
AnnotationInputs ==
    { << >>, << empty_ann >>, << ann_spline >>, << ann_box, empty_ann >> }

MetadataInputs == { EmptyDict, [k \in {"note"} |-> "n1"] }

\* The metadata update_metadata_and_labels is called with: none, a new key,
\* a key upload_image has set.
MetadataPatches ==
    { EmptyDict, [k \in {"note"} |-> "n1"], [k \in {"imageName"} |-> "renamed"] }

\* Its image_labels: None (the default), the empty list, a list.
LabelInputs == { None, Some(<< >>), Some(<< "cat" >>) }

\* ------------------------------------------------------ content encoding
\* encode_content: json.dumps(...).encode(), the bytes of a JSON document.
encode_content(decoded_content) == [json |-> TRUE, doc |-> decoded_content]
\* Bytes that are no JSON document.
CorruptBytes == [json |-> FALSE, doc |-> << >>]
\* decode_content: the document, or None (the JSONDecodeError is logged).
decode_content(content) == IF content.json THEN Some(content.doc) ELSE None

VARIABLES
    store_content,   \* project uid -> bytes of the collection's content
    store_etag,      \* project uid -> revision of the collection in the store
    store_items,     \* item uid -> None or Some(item) as committed to the store
    next_uid,        \* uids handed out so far by item_mng.create (at most MaxItems)
    gliff_project,   \* session -> None or Some(Project): Gliff.project
    pc,              \* session -> position in the running call
    frame,           \* session -> locals of the running call
    ret,             \* session -> outcome of the last finished call
    calls,           \* API calls started so far
    fetches,         \* session -> account -> project uid -> collection fetches
    read_current,    \* session -> the last gallery it decoded held every tile
                     \* the store held at that moment
    uploaded,        \* uids upload_image has returned
    linked,          \* << image uid, username, annotation uid >> of the new
                     \* annotation items upload_annotation has returned
    last_bind,       \* the latest update_project_data: who, what, fetched or not
    last_update,     \* the latest item write of _update_annotation_item: the
                     \* item, the list stored before it, the list uploaded
    call_entry,      \* session -> the arguments of the call it started last,
                     \* and the store's items as they were at that moment
    last_tile_update,\* the latest accepted commit of _update_gallery_tile: the
                     \* tile as the session read it, the patch, the tile stored
    read_result,     \* session -> what its latest get_metadata_and_labels or
                     \* get_annotations returned, and the item it fetched
    invitations,     \* list_incoming().data of the account logging in
    accept_fails,    \* invitations whose accept raises
    accepted,        \* invitations accepted so far
    login_pc,        \* position in login
    login_i,         \* invitations the loop has passed
    login_ret,       \* outcome of login
    defined,         \* what the module's globals, the process environment and
                     \* the .env file define: each maps a name to a value,
                     \* or to Absent
    value_ret,       \* outcome of the latest get_value
    bitmap           \* the PIL image a caller keeps and passes to every upload
                     \* it makes with CallerBitmap: its kind and current size

store_vars == << store_content, store_etag, store_items, next_uid >>
session_vars ==
    << gliff_project, pc, frame, ret, calls, fetches, read_current, uploaded, linked, last_bind,
       last_update, call_entry, last_tile_update, read_result, bitmap >>
login_vars == << invitations, accept_fails, accepted, login_pc, login_i, login_ret >>
value_vars == << defined, value_ret >>
vars == << store_vars, session_vars, login_vars, value_vars, bitmap >>


\* get_current_time: the clock, read as the number of calls started so far
\* (a call reads it after it started, so later than any earlier call did).
get_current_time == calls

\* ------------------------------------------------------------ class Project
\* _fetch_project: the collection as the store holds it now, with its etag.
_fetch_project(project_uid) ==
    [content |-> store_content[project_uid], etag |-> store_etag[project_uid]]

\* reset_values: account, uid, and the freshly fetched collection (the two
\* managers are handles on the same account and collection).
reset_values(account, project_uid) ==
    [account |-> account, project_uid |-> project_uid,
     project |-> _fetch_project(project_uid)]

\* A rebinding that takes the new account and uid and skips the fetches.
Project_rebind_without_fetch(self, account, project_uid) ==
    [project |-> [self EXCEPT !.account = account, !.project_uid = project_uid],
     fetched |-> FALSE]

\* A binding that resets on every call.
Project_always_reset(self, account, project_uid) ==
    [project |-> reset_values(account, project_uid), fetched |-> TRUE]

\* Project.update_project_data: reset only when account or uid changed.
\* `fetched` tells whether the remote fetches of reset_values ran.
Project_update_project_data(self, account, project_uid) ==
    IF account # self.account \/ project_uid # self.project_uid
    THEN [project |-> reset_values(account, project_uid), fetched |-> TRUE]
    ELSE [project |-> self, fetched |-> FALSE]

\* Gliff.update_project_data on session s.
update_project_data(s, account, project_uid) ==
    IF IsNone(gliff_project[s])
    THEN [project |-> reset_values(account, project_uid), fetched |-> TRUE]
    ELSE Project_update_project_data(The(gliff_project[s]), account, project_uid)

\* Project.get_content: the content of the collection object held locally.
get_content(self) == self.project.content

\* The store's answer to project_mng.transaction(collection): a collection
\* whose etag is not the stored one is refused; otherwise the upload goes
\* through or fails in transit.
TransactionAnswers(self) ==
    IF self.project.etag = store_etag[self.project_uid]
    THEN {"ok", "error"} ELSE {"conflict"}

\* ------------------------------------------------------------- the gallery
_get_gallery(self) == decode_content(get_content(self))

\* Index (from 1) of the first tile with that id, 0 for None.
RECURSIVE find_from(_, _, _)
find_from(gallery, id, i) ==
    IF i > Len(gallery) THEN 0
    ELSE IF gallery[i].id = id THEN i
    ELSE find_from(gallery, id, i + 1)

_find_gallery_tile(gallery, id) == find_from(gallery, id, 1)

_create_new_tile(image_item_uid, thumbnail, image_labels, metadata) ==
    [id |-> image_item_uid,
     thumbnail |-> thumbnail,
     imageLabels |-> image_labels,
     metadata |-> metadata,
     imageUID |-> image_item_uid,
     annotationUID |-> EmptyDict,
     auditUID |-> EmptyDict,
     annotationComplete |-> EmptyDict]

\* A tile update that names, for each user, the uid after the one given:
\* an item not created yet.
_create_tile_update_naming_next_uid(image_labels, metadata, annotation_uid, audit_uid, annotation_complete) ==
    [metadata |-> metadata,
     annotationUID |-> [u \in DOMAIN annotation_uid |-> annotation_uid[u] + 1],
     auditUID |-> audit_uid,
     annotationComplete |-> annotation_complete,
     imageLabels |-> image_labels]

\* A tile update that leaves the annotation item's uid out.
_create_tile_update_without_uid(image_labels, metadata, annotation_uid, audit_uid, annotation_complete) ==
    [metadata |-> metadata,
     annotationUID |-> EmptyDict,
     auditUID |-> audit_uid,
     annotationComplete |-> annotation_complete,
     imageLabels |-> image_labels]

\* image_labels is None or Some(list): the key is set only when not None.
_create_tile_update(image_labels, metadata, annotation_uid, audit_uid, annotation_complete) ==
    [metadata |-> metadata,
     annotationUID |-> annotation_uid,
     auditUID |-> audit_uid,
     annotationComplete |-> annotation_complete,
     imageLabels |-> image_labels]

\* An update that puts the patch's metadata in the place of the tile's.
update_tile_replacing_metadata(tile, tile_data) ==
    [tile EXCEPT
        !.metadata = tile_data.metadata,
        !.annotationUID = dict_update(@, tile_data.annotationUID),
        !.auditUID = dict_update(@, tile_data.auditUID),
        !.annotationComplete = dict_update(@, tile_data.annotationComplete),
        !.imageLabels = IF IsNone(tile_data.imageLabels) THEN @ ELSE The(tile_data.imageLabels)]

\* An update that puts the patch's annotationComplete in the place of the
\* tile's.
update_tile_replacing_annotationComplete(tile, tile_data) ==
    [tile EXCEPT
        !.metadata = dict_update(@, tile_data.metadata),
        !.annotationUID = dict_update(@, tile_data.annotationUID),
        !.auditUID = dict_update(@, tile_data.auditUID),
        !.annotationComplete = tile_data.annotationComplete,
        !.imageLabels = IF IsNone(tile_data.imageLabels) THEN @ ELSE The(tile_data.imageLabels)]

\* An update that puts the patch's annotationUID in the place of the tile's.
update_tile_replacing_annotationUID(tile, tile_data) ==
    [tile EXCEPT
        !.metadata = dict_update(@, tile_data.metadata),
        !.annotationUID = tile_data.annotationUID,
        !.auditUID = dict_update(@, tile_data.auditUID),
        !.annotationComplete = dict_update(@, tile_data.annotationComplete),
        !.imageLabels = IF IsNone(tile_data.imageLabels) THEN @ ELSE The(tile_data.imageLabels)]

\* An update that also blanks the tile's thumbnail.
update_tile_blanking_thumbnail(tile, tile_data) ==
    [tile EXCEPT
        !.thumbnail = << 0, 0 >>,
        !.metadata = dict_update(@, tile_data.metadata),
        !.annotationUID = dict_update(@, tile_data.annotationUID),
        !.auditUID = dict_update(@, tile_data.auditUID),
        !.annotationComplete = dict_update(@, tile_data.annotationComplete),
        !.imageLabels = IF IsNone(tile_data.imageLabels) THEN @ ELSE The(tile_data.imageLabels)]

\* An update that appends the patch's labels to the tile's.
update_tile_appending_imageLabels(tile, tile_data) ==
    [tile EXCEPT
        !.metadata = dict_update(@, tile_data.metadata),
        !.annotationUID = dict_update(@, tile_data.annotationUID),
        !.auditUID = dict_update(@, tile_data.auditUID),
        !.annotationComplete = dict_update(@, tile_data.annotationComplete),
        !.imageLabels = IF IsNone(tile_data.imageLabels) THEN @ ELSE @ \o The(tile_data.imageLabels)]

update_tile(tile, tile_data) ==
    [tile EXCEPT
        !.metadata = dict_update(@, tile_data.metadata),
        !.annotationUID = dict_update(@, tile_data.annotationUID),
        !.auditUID = dict_update(@, tile_data.auditUID),
        !.annotationComplete = dict_update(@, tile_data.annotationComplete),
        !.imageLabels = IF IsNone(tile_data.imageLabels) THEN @ ELSE The(tile_data.imageLabels)]

\* A lookup that finds no annotation item.
annotation_uid_never_found(gallery, image_item_uid, username, i) == NoUid

\* _get_annotation_uid's loop: the uid the first tile with that id holds for
\* username, NoUid for None.
RECURSIVE annotation_uid_from(_, _, _, _)
annotation_uid_from(gallery, image_item_uid, username, i) ==
    IF i > Len(gallery) THEN NoUid
    ELSE IF gallery[i].id = image_item_uid /\ username \in DOMAIN gallery[i].annotationUID
    THEN gallery[i].annotationUID[username]
    ELSE annotation_uid_from(gallery, image_item_uid, username, i + 1)


\* ------------------------------------------------------------------ images
\* A bitmap (PIL.Image.Image), or a value that is neither bitmap nor str.
ImageInputs ==
    { [kind |-> "pil", width |-> 200, height |-> 100],
      [kind |-> "other", width |-> 0, height |-> 0] }

\* A 200 x 100 bitmap.
Bitmap == [kind |-> "pil", width |-> 200, height |-> 100]

\* The image argument of a caller that passes the bitmap object it keeps.
CallerBitmap == [kind |-> "kept", width |-> 0, height |-> 0]

ThumbnailSize == 128

\* Image.thumbnail((128, 128)): aspect-preserving downscale into the box.
thumbnail_size(width, height) ==
    IF width <= ThumbnailSize /\ height <= ThumbnailSize THEN << width, height >>
    ELSE IF width >= height
    THEN << ThumbnailSize, (height * ThumbnailSize) \div width >>
    ELSE << (width * ThumbnailSize) \div height, ThumbnailSize >>

\* _process_image_data: None for a value of the wrong type.
_process_image_data(image) ==
    IF image.kind \in {"pil", "str"}
    THEN Some([width |-> image.width,
               height |-> image.height,
               thumbnail |-> thumbnail_size(image.width, image.height),
               encoded_image |-> encode_content(<< << << image.width, image.height >> >> >>)])
    ELSE None

\* The image a call receives: the kept object as it is now, or a fresh value.
image_passed(image_arg) == IF image_arg = CallerBitmap THEN bitmap ELSE image_arg

\* The kept bitmap once _get_thumbnail_from_pil_image has run on the image
\* passed: img_pil.thumbnail(size) resizes the object itself, and for a
\* bitmap _process_image_data passes the caller's object on (image_pil = image).
bitmap_after(image_arg) ==
    IF image_arg = CallerBitmap
    THEN [bitmap EXCEPT !.width = thumbnail_size(bitmap.width, bitmap.height)[1],
                        !.height = thumbnail_size(bitmap.width, bitmap.height)[2]]
    ELSE bitmap

\* ------------------------------------------------------------- call frames
NoFrame ==
    [op |-> "none", image_item_uid |-> NoUid, username |-> "", annotations |-> << >>,
     metadata |-> EmptyDict, image_labels |-> << >>, name |-> "", image_data |-> None,
     item_uid |-> NoUid, item |-> None, tile_data |-> None, item_written |-> NoUid,
     collection |-> None]

\* What call_entry keeps of a call: its arguments (those it does not take
\* have NoFrame's values), the items of the store when it started, and the
\* gallery the session held once the call had bound the project (None: it
\* bound none, or the content does not decode).
Entry(f, image, items, gallery) ==
    [op |-> f.op, image_item_uid |-> f.image_item_uid, username |-> f.username,
     annotations |-> f.annotations, metadata |-> f.metadata,
     image_labels |-> f.image_labels, image |-> image, store_items |-> items,
     gallery |-> gallery]

NoImage == [kind |-> "none", width |-> 0, height |-> 0]

NoEntry == Entry(NoFrame, NoImage, << >>, None)

\* What a reading call returned (None, or the value) and the uid of the item
\* it fetched from the store (NoUid: it fetched none).
Result(value, item_fetched) == [value |-> value, item_fetched |-> item_fetched]

NoResult == Result(None, NoUid)

\* How a call ended: kind "returned" (value: a uid, NoUid for None) or "raised";
\* item_written: the uid of the item this call created in the store;
\* gallery: what became of the call's gallery mutation ("none": there was
\* none; "ok", "conflict", "error": the store's answer to the commit;
\* "no_tile", "undecodable": the exception raised before any commit).
Outcome(op, kind, value, error, item_written, gallery) ==
    [op |-> op, kind |-> kind, value |-> value, error |-> error,
     item_written |-> item_written, gallery |-> gallery]

NoOutcome == Outcome("none", "none", NoUid, "", NoUid, "none")

\* The call of session s ends.
Finish(s, outcome) ==
    /\ pc' = [pc EXCEPT ![s] = "idle"]
    /\ frame' = [frame EXCEPT ![s] = NoFrame]
    /\ ret' = [ret EXCEPT ![s] = outcome]

\* The first statement of every API call: bind the project.
Bind(s, account, project_uid) ==
    LET b == update_project_data(s, account, project_uid) IN
    /\ gliff_project' = [gliff_project EXCEPT ![s] = Some(b.project)]
    /\ fetches' = [fetches EXCEPT ![s][account][project_uid] = @ + (IF b.fetched THEN 1 ELSE 0)]
    /\ last_bind' = [session |-> s, account |-> account, project_uid |-> project_uid,
                     fetched |-> b.fetched]

\* Project.set_content: the local collection takes the content, then the
\* transaction; only an accepted one changes the store and the local etag.
set_content(s, self, content, answer) ==
    /\ gliff_project' =
         [gliff_project EXCEPT ![s] =
            Some([self EXCEPT !.project =
                    [content |-> content,
                     etag |-> IF answer = "ok" THEN store_etag[self.project_uid] + 1
                              ELSE self.project.etag]])]
    /\ IF answer = "ok"
       THEN /\ store_content' = [store_content EXCEPT ![self.project_uid] = content]
            /\ store_etag' = [store_etag EXCEPT ![self.project_uid] = @ + 1]
       ELSE UNCHANGED << store_content, store_etag >>

\* Whether the gallery decoded from `content` holds every tile the store
\* holds for the project at this moment (an undecodable one holds none).
ReadIsCurrent(content, project_uid) ==
    LET got == decode_content(content)
        stored == decode_content(store_content[project_uid])
    IN \/ IsNone(stored)
       \/ /\ ~ IsNone(got)
          /\ \A i \in 1 .. Len(The(stored)) :
                \E j \in 1 .. Len(The(got)) : The(got)[j] = The(stored)[i]

\* --------------------------------------------------------------- get_value
\* The names get_value is asked for; a name no source defines maps to Absent,
\* a global bound to None maps to PyNone.
Names == {"TEST_VARIABLE", "GLIFF_SERVER"}
Absent == "absent"
PyNone == "None"

\* How get_value or config ended: a value returned, or an exception of the
\* given class whose message is the name followed by the text.
ValueReturned(name, value) ==
    [name |-> name, kind |-> "returned", value |-> value, error |-> "", text |-> ""]
ValueRaised(name, error, text) ==
    [name |-> name, kind |-> "raised", value |-> Absent, error |-> error, text |-> text]
NoValue == [name |-> "", kind |-> "none", value |-> Absent, error |-> "", text |-> ""]

\* decouple's config(option) without default: the environment first, then
\* the .env file, else UndefinedValueError.
config(d, option) ==
    IF d.environ[option] # Absent THEN ValueReturned(option, d.environ[option])
    ELSE IF d.dotenv[option] # Absent THEN ValueReturned(option, d.dotenv[option])
    ELSE ValueRaised(option, "UndefinedValueError",
                     " not found. Declare it as envvar or define a default value.")

\* A get_value that asks config when globals() has no such key.
Gliff_get_value_asking_config(d, env_variable) ==
    IF d.globals[env_variable] \notin {Absent, PyNone}
    THEN ValueReturned(env_variable, d.globals[env_variable])
    ELSE config(d, env_variable)

\* Gliff.get_value: globals()[env_variable] raises KeyError for a missing
\* key, which becomes UndefinedValueError; a global that is None sends the
\* call to config, whose own UndefinedValueError is not a KeyError.
Gliff_get_value(d, env_variable) ==
    IF d.globals[env_variable] = Absent
    THEN ValueRaised(env_variable, "UndefinedValueError", " not found.")
    ELSE IF d.globals[env_variable] # PyNone
    THEN ValueReturned(env_variable, d.globals[env_variable])
    ELSE config(d, env_variable)

\* Nothing defines any name, and get_value has not been called.
InitValues ==
    /\ defined = [globals |-> [n \in Names |-> Absent],
                  environ |-> [n \in Names |-> Absent],
                  dotenv |-> [n \in Names |-> Absent]]
    /\ value_ret = NoValue

\* --------------------------------------------------------------- the store
\* Projects with an empty gallery and no item; Gliff objects just constructed.
InitStore ==
    /\ store_content = [p \in Projects |-> encode_content(<< >>)]
    /\ store_etag = [p \in Projects |-> 0]
    /\ store_items = [u \in Uids |-> None]
    /\ next_uid = 0

InitSessions ==
    /\ gliff_project = [s \in Sessions |-> None]
    /\ pc = [s \in Sessions |-> "idle"]
    /\ frame = [s \in Sessions |-> NoFrame]
    /\ ret = [s \in Sessions |-> NoOutcome]
    /\ calls = 0
    /\ fetches = [s \in Sessions |-> [a \in Accounts |-> [p \in Projects |-> 0]]]
    /\ read_current = [s \in Sessions |-> TRUE]
    /\ uploaded = {}
    /\ linked = {}
    /\ last_bind = [session |-> "none", account |-> "none", project_uid |-> "none",
                    fetched |-> FALSE]
    /\ last_update = None
    /\ call_entry = [s \in Sessions |-> NoEntry]
    /\ last_tile_update = None
    /\ read_result = [s \in Sessions |-> NoResult]
    /\ bitmap = Bitmap

\* The sessions are logged in already.
Init ==
    /\ InitStore
    /\ InitSessions
    /\ invitations = << >>
    /\ accept_fails = {}
    /\ accepted = {}
    /\ login_pc = "done"
    /\ login_i = 0
    /\ login_ret = "none"
    /\ InitValues

\* ------------------------------------------------------------ upload_image
\* upload_image up to the item's creation: bind, then _process_image_data.
upload_image(s, accounts, projects, images, metadatas) ==
    /\ pc[s] = "idle"
    /\ calls < MaxCalls
    /\ \E account \in accounts, project_uid \in projects, image_arg \in images,
          metadata \in metadatas :
         LET image == image_passed(image_arg)
             image_data == _process_image_data(image)
         IN
         /\ Bind(s, account, project_uid)
         /\ bitmap' = bitmap_after(image_arg)
         /\ calls' = calls + 1
         /\ call_entry' = [call_entry EXCEPT ![s] =
               Entry([NoFrame EXCEPT !.op = "upload_image", !.metadata = metadata],
                     image, store_items,
                     _get_gallery(update_project_data(s, account, project_uid).project))]
         /\ IF IsNone(image_data)
            THEN Finish(s, Outcome("upload_image", "returned", NoUid, "", NoUid, "none"))
            ELSE /\ pc' = [pc EXCEPT ![s] = "upload_image_item"]
                 /\ frame' = [frame EXCEPT ![s] =
                       [NoFrame EXCEPT !.op = "upload_image", !.name = "scan1",
                                       !.metadata = metadata, !.image_data = image_data]]
                 /\ UNCHANGED ret
    /\ UNCHANGED << store_vars, read_current, uploaded, linked, last_update, last_tile_update, read_result, login_vars, value_vars >>

\* item_mng.create and item_mng.transaction([item]) of upload_image.
upload_image_item(s) ==
    /\ pc[s] = "upload_image_item"
    /\ next_uid < MaxItems
    /\ LET uid == next_uid + 1
           self == The(gliff_project[s])
           item == [project_uid |-> self.project_uid,
                    meta |-> [type |-> "gliff.image", imageName |-> frame[s].name,
                             createdTime |-> get_current_time,
                             modifiedTime |-> get_current_time],
                    content |-> The(frame[s].image_data).encoded_image,
                    etag |-> 1]
       IN /\ next_uid' = uid
          /\ \E answer \in {"ok", "error"} :
               IF answer = "ok"
               THEN /\ store_items' = [store_items EXCEPT ![uid] = Some(item)]
                    /\ pc' = [pc EXCEPT ![s] = "_create_gallery_tile"]
                    /\ frame' = [frame EXCEPT ![s].item_uid = uid, ![s].item_written = uid]
                    /\ UNCHANGED ret
               ELSE /\ UNCHANGED store_items
                    /\ Finish(s, Outcome("upload_image", "raised", NoUid, "StoreError", NoUid, "none"))
    /\ UNCHANGED << store_content, store_etag, gliff_project, calls, fetches,
                    read_current, uploaded, linked, last_bind, last_update, call_entry,
                    last_tile_update, read_result, login_vars, value_vars, bitmap >>

\* The tile upload_image builds from the new item and the processed image.
new_tile_of(f) ==
    _create_new_tile(
        f.item_uid, The(f.image_data).thumbnail, f.image_labels,
        dict_update([k \in {"imageName", "width", "height"} |->
                        CASE k = "imageName" -> f.name
                          [] k = "width" -> The(f.image_data).width
                          [] k = "height" -> The(f.image_data).height],
                    f.metadata))

\* _create_gallery_tile, then upload_image returns item.uid: any exception
\* of the read, the append or the commit is logged and dropped.
_create_gallery_tile(s) ==
    /\ pc[s] = "_create_gallery_tile"
    /\ LET self == The(gliff_project[s])
           gallery == _get_gallery(self)
           uid == frame[s].item_uid
       IN /\ read_current' = [read_current EXCEPT ![s] = ReadIsCurrent(get_content(self), self.project_uid)]
          /\ IF IsNone(gallery)
             THEN /\ UNCHANGED << gliff_project, store_content, store_etag >>
                  /\ Finish(s, Outcome("upload_image", "returned", uid, "", uid, "undecodable"))
             ELSE \E answer \in TransactionAnswers(self) :
                  /\ set_content(s, self,
                                 encode_content(Append(The(gallery), new_tile_of(frame[s]))),
                                 answer)
                  /\ Finish(s, Outcome("upload_image", "returned", uid, "", uid, answer))
          /\ uploaded' = uploaded \cup {uid}
    /\ UNCHANGED << store_items, next_uid, calls, fetches, linked, last_bind, last_update, call_entry,
                    last_tile_update, read_result, login_vars, value_vars, bitmap >>

\* ------------------------------------------------------- upload_annotation
\* upload_annotation up to the branch: _get_annotation_uid binds and looks
\* the (image, username) pair up in the gallery it decodes.
upload_annotation(s, accounts, projects, usernames, annotation_lists, metadatas) ==
    /\ pc[s] = "idle"
    /\ calls < MaxCalls
    /\ \E account \in accounts, project_uid \in projects, image_item_uid \in Uids,
          username \in usernames, annotations \in annotation_lists, metadata \in metadatas :
         LET b == update_project_data(s, account, project_uid)
             gallery == _get_gallery(b.project)
             annotation_item_uid ==
                 annotation_uid_from(The(gallery), image_item_uid, username, 1)
             f == [NoFrame EXCEPT !.op = "upload_annotation",
                                  !.image_item_uid = image_item_uid,
                                  !.username = username,
                                  !.annotations = annotations,
                                  !.metadata = metadata]
         IN
         /\ Bind(s, account, project_uid)
         /\ calls' = calls + 1
         /\ call_entry' = [call_entry EXCEPT ![s] = Entry(f, NoImage, store_items, gallery)]
         /\ read_current' = [read_current EXCEPT ![s] = ReadIsCurrent(get_content(b.project), project_uid)]
         /\ IF IsNone(gallery)
            THEN \* for tile in None
                 Finish(s, Outcome("upload_annotation", "raised", NoUid, "TypeError", NoUid, "none"))
            ELSE IF annotation_item_uid = NoUid
            THEN /\ pc' = [pc EXCEPT ![s] = "_create_annotation_item"]
                 /\ frame' = [frame EXCEPT ![s] = f]
                 /\ UNCHANGED ret
            ELSE /\ pc' = [pc EXCEPT ![s] = "_update_annotation_item"]
                 /\ frame' = [frame EXCEPT ![s] = [f EXCEPT !.item_uid = annotation_item_uid]]
                 /\ UNCHANGED ret
    /\ UNCHANGED << store_vars, uploaded, linked, last_update, last_tile_update, read_result, login_vars, value_vars, bitmap >>

\* _create_annotation_item: item_mng.create and item_mng.transaction([item]),
\* then the tile update that links the new item to the image's tile.
_create_annotation_item(s) ==
    /\ pc[s] = "_create_annotation_item"
    /\ next_uid < MaxItems
    /\ LET uid == next_uid + 1
           self == The(gliff_project[s])
           item == [project_uid |-> self.project_uid,
                    meta |-> [type |-> "gliff.annotation", isComplete |-> FALSE,
                             createdTime |-> get_current_time,
                             modifiedTime |-> get_current_time],
                    content |-> encode_content(frame[s].annotations),
                    etag |-> 1]
           tile_data == _create_tile_update(
                            None, frame[s].metadata,
                            [u \in {frame[s].username} |-> uid], EmptyDict,
                            [u \in {frame[s].username} |-> FALSE])
       IN /\ next_uid' = uid
          /\ \E answer \in {"ok", "error"} :
               IF answer = "ok"
               THEN /\ store_items' = [store_items EXCEPT ![uid] = Some(item)]
                    /\ pc' = [pc EXCEPT ![s] = "_update_gallery_tile"]
                    /\ frame' = [frame EXCEPT ![s].item_uid = uid,
                                              ![s].item_written = uid,
                                              ![s].tile_data = Some(tile_data)]
                    /\ UNCHANGED ret
               ELSE /\ UNCHANGED store_items
                    /\ Finish(s, Outcome("upload_annotation", "raised", NoUid, "StoreError", NoUid, "none"))
    /\ UNCHANGED << store_content, store_etag, gliff_project, calls, fetches,
                    read_current, uploaded, linked, last_bind, last_update, call_entry,
                    last_tile_update, read_result, login_vars, value_vars, bitmap >>

\* 0 & b, the right operand of > in _update_annotation_item's condition:
\* & binds tighter than >, and the bitwise and of 0 with a bool is 0.
zero_and(b) == 0

\* The condition with 1 in the place of 0: 1 & b is 1 for True, 0 for False.
pops_last_of_longer(prev_annotations) ==
    Len(prev_annotations) >
        (IF is_empty_annotation(prev_annotations[Len(prev_annotations)]) THEN 1 ELSE 0)

\* `len(prev_annotations) > 0 & self.is_empty_annotation(prev_annotations[-1])`
\* for a non-empty list: whether the last annotation is popped.
pops_last(prev_annotations) ==
    Len(prev_annotations) >
        zero_and(is_empty_annotation(prev_annotations[Len(prev_annotations)]))

\* The list _update_annotation_item writes back (prev_annotations non-empty).
updated_annotations(prev_annotations, annotations) ==
    (IF pops_last(prev_annotations)
     THEN SubSeq(prev_annotations, 1, Len(prev_annotations) - 1)
     ELSE prev_annotations) \o annotations

\* _update_annotation_item up to the item's transaction: get_project_item
\* fetches the item, the content is decoded, trimmed and extended locally.
_update_annotation_item(s) ==
    /\ pc[s] = "_update_annotation_item"
    /\ LET stored == store_items[frame[s].item_uid]
           prev_annotations == decode_content(The(stored).content)
       IN IF \/ IsNone(stored)
             \/ The(stored).project_uid # The(gliff_project[s]).project_uid
          THEN \* get_project_item logged the error and returned None: item.content
               Finish(s, Outcome("upload_annotation", "raised", NoUid, "AttributeError", NoUid, "none"))
          ELSE IF IsNone(prev_annotations)
          THEN \* len(None)
               Finish(s, Outcome("upload_annotation", "raised", NoUid, "TypeError", NoUid, "none"))
          ELSE IF Len(The(prev_annotations)) = 0
          THEN \* prev_annotations[-1] of an empty list
               Finish(s, Outcome("upload_annotation", "raised", NoUid, "IndexError", NoUid, "none"))
          ELSE /\ pc' = [pc EXCEPT ![s] = "item_transaction"]
               /\ frame' = [frame EXCEPT ![s].item =
                     Some([The(stored) EXCEPT
                             !.meta = dict_update(@, [k \in {"modifiedTime"} |-> get_current_time]),
                             !.content =
                             encode_content(updated_annotations(The(prev_annotations),
                                                                frame[s].annotations))])]
               /\ UNCHANGED ret
    /\ UNCHANGED << store_vars, gliff_project, calls, fetches, read_current, uploaded, linked,
                    last_bind, last_update, call_entry,
                    last_tile_update, read_result, login_vars, value_vars, bitmap >>

\* item_mng.transaction([item]) of _update_annotation_item, and what follows:
\* the tile's metadata update if metadata is non-empty, then return item.uid.
item_transaction(s) ==
    /\ pc[s] = "item_transaction"
    /\ LET uid == frame[s].item_uid
           item == The(frame[s].item)
           answers == IF item.etag = The(store_items[uid]).etag
                      THEN {"ok", "error"} ELSE {"conflict"}
       IN \E answer \in answers :
            IF answer = "ok"
            THEN /\ store_items' = [store_items EXCEPT ![uid] =
                                       Some([item EXCEPT !.etag = @ + 1])]
                 /\ last_update' =
                        Some([uid |-> uid,
                              prev |-> The(decode_content(The(store_items[uid]).content)),
                              annotations |-> frame[s].annotations])
                 /\ IF frame[s].metadata # EmptyDict
                    THEN /\ pc' = [pc EXCEPT ![s] = "_update_gallery_tile"]
                         /\ frame' = [frame EXCEPT ![s].tile_data =
                               Some(_create_tile_update(None, frame[s].metadata,
                                                        EmptyDict, EmptyDict, EmptyDict))]
                         /\ UNCHANGED ret
                    ELSE Finish(s, Outcome("upload_annotation", "returned", uid, "", NoUid, "none"))
            ELSE /\ UNCHANGED << store_items, last_update >>
                 /\ Finish(s, Outcome("upload_annotation", "raised", NoUid, "StoreError", NoUid, "none"))
    /\ UNCHANGED << store_content, store_etag, next_uid, gliff_project, calls, fetches,
                    read_current, uploaded, linked, last_bind, call_entry,
                    last_tile_update, read_result, login_vars, value_vars, bitmap >>

\* _update_gallery_tile, then the caller returns item.uid: any exception of
\* the read, the lookup, the merge or the commit is logged and dropped.
_update_gallery_tile(s) ==
    /\ pc[s] = "_update_gallery_tile"
    /\ LET self == The(gliff_project[s])
           gallery == _get_gallery(self)
           op == frame[s].op
           uid == IF op = "update_metadata_and_labels" THEN NoUid ELSE frame[s].item_uid
           written == frame[s].item_written
           tile_index == _find_gallery_tile(The(gallery), frame[s].image_item_uid)
           tile == update_tile(The(gallery)[tile_index], The(frame[s].tile_data))
       IN /\ read_current' = [read_current EXCEPT ![s] = ReadIsCurrent(get_content(self), self.project_uid)]
          /\ IF IsNone(gallery)
             THEN \* enumerate(None)
                  /\ UNCHANGED << gliff_project, store_content, store_etag, last_tile_update >>
                  /\ Finish(s, Outcome(op, "returned", uid, "", written, "undecodable"))
             ELSE IF tile_index = 0
             THEN \* gallery[None]
                  /\ UNCHANGED << gliff_project, store_content, store_etag, last_tile_update >>
                  /\ Finish(s, Outcome(op, "returned", uid, "", written, "no_tile"))
             ELSE \E answer \in TransactionAnswers(self) :
                  /\ set_content(s, self,
                        encode_content([The(gallery) EXCEPT ![tile_index] = tile]),
                        answer)
                  /\ last_tile_update' =
                        IF answer = "ok"
                        THEN Some([session |-> s,
                                   project_uid |-> self.project_uid,
                                   index |-> tile_index,
                                   before |-> The(gallery)[tile_index],
                                   tile_data |-> The(frame[s].tile_data),
                                   after |-> tile])
                        ELSE last_tile_update
                  /\ Finish(s, Outcome(op, "returned", uid, "", written, answer))
          /\ linked' = IF written = NoUid THEN linked
                       ELSE linked \cup {<< frame[s].image_item_uid, frame[s].username, uid >>}
    /\ UNCHANGED << store_items, next_uid, calls, fetches, uploaded, last_bind, last_update,
                    call_entry, read_result, login_vars, value_vars, bitmap >>

\* ---------------------------------------------- update_metadata_and_labels
\* update_metadata_and_labels up to get_project_item: nothing to do when
\* neither metadata nor labels are given, else bind.  The frame keeps the
\* image_labels argument as None or Some(list).
update_metadata_and_labels(s, accounts, projects, item_uids, label_inputs, metadatas) ==
    /\ pc[s] = "idle"
    /\ calls < MaxCalls
    /\ \E account \in accounts, project_uid \in projects, item_uid \in item_uids,
          image_labels \in label_inputs, metadata \in metadatas :
         LET f == [NoFrame EXCEPT !.op = "update_metadata_and_labels",
                                  !.image_item_uid = item_uid,
                                  !.image_labels = image_labels,
                                  !.metadata = metadata]
             nothing == metadata = EmptyDict
                          /\ (IsNone(image_labels) \/ Len(The(image_labels)) = 0)
         IN
         /\ calls' = calls + 1
         /\ call_entry' = [call_entry EXCEPT ![s] =
               Entry(f, NoImage, store_items,
                     IF nothing THEN None
                     ELSE _get_gallery(update_project_data(s, account, project_uid).project))]
         /\ IF nothing
            THEN \* not metadata and not image_labels
                 /\ Finish(s, Outcome("update_metadata_and_labels", "returned", NoUid, "",
                                      NoUid, "none"))
                 /\ UNCHANGED << gliff_project, fetches, last_bind >>
            ELSE /\ Bind(s, account, project_uid)
                 /\ pc' = [pc EXCEPT ![s] = "update_metadata_and_labels_item"]
                 /\ frame' = [frame EXCEPT ![s] = f]
                 /\ UNCHANGED ret
    /\ UNCHANGED << store_vars, read_current, uploaded, linked, last_update, last_tile_update,
                    read_result, login_vars, value_vars, bitmap >>

\* get_project_item, the new modifiedTime and item_mng.transaction([item]) of
\* update_metadata_and_labels; then the tile update is built.
update_metadata_and_labels_item(s) ==
    /\ pc[s] = "update_metadata_and_labels_item"
    /\ LET item_uid == frame[s].image_item_uid
           stored == store_items[item_uid]
           tile_data == _create_tile_update(frame[s].image_labels, frame[s].metadata,
                                            EmptyDict, EmptyDict, EmptyDict)
       IN IF \/ IsNone(stored)
             \/ The(stored).project_uid # The(gliff_project[s]).project_uid
          THEN \* get_project_item logged the error and returned None: item.meta
               /\ UNCHANGED store_items
               /\ Finish(s, Outcome("update_metadata_and_labels", "raised", NoUid,
                                    "AttributeError", NoUid, "none"))
          ELSE \E answer \in {"ok", "error"} :
               IF answer = "ok"
               THEN /\ store_items' = [store_items EXCEPT ![item_uid] =
                          Some([The(stored) EXCEPT
                                  !.meta = dict_update(@, [k \in {"modifiedTime"} |->
                                                             get_current_time]),
                                  !.etag = @ + 1])]
                    /\ pc' = [pc EXCEPT ![s] = "_update_gallery_tile"]
                    /\ frame' = [frame EXCEPT ![s].tile_data = Some(tile_data)]
                    /\ UNCHANGED ret
               ELSE /\ UNCHANGED store_items
                    /\ Finish(s, Outcome("update_metadata_and_labels", "raised", NoUid,
                                         "StoreError", NoUid, "none"))
    /\ UNCHANGED << store_content, store_etag, next_uid, gliff_project, calls, fetches,
                    read_current, uploaded, linked, last_bind, last_update, call_entry,
                    last_tile_update, read_result, login_vars, value_vars, bitmap >>

\* ------------------------------------------------------------------- reads
\* get_metadata_and_labels: bind, decode the gallery, find the tile; every
\* exception is logged and None is returned.
get_metadata_and_labels(s, accounts, projects, item_uids) ==
    /\ pc[s] = "idle"
    /\ calls < MaxCalls
    /\ \E account \in accounts, project_uid \in projects, item_uid \in item_uids :
         LET b == update_project_data(s, account, project_uid)
             gallery == _get_gallery(b.project)
             index == _find_gallery_tile(The(gallery), item_uid)
             f == [NoFrame EXCEPT !.op = "get_metadata_and_labels",
                                  !.image_item_uid = item_uid]
         IN
         /\ Bind(s, account, project_uid)
         /\ calls' = calls + 1
         /\ call_entry' = [call_entry EXCEPT ![s] = Entry(f, NoImage, store_items, gallery)]
         /\ read_current' = [read_current EXCEPT ![s] =
                                ReadIsCurrent(get_content(b.project), project_uid)]
         /\ IF IsNone(gallery)
            THEN \* enumerate(None)
                 /\ read_result' = [read_result EXCEPT ![s] = NoResult]
                 /\ Finish(s, Outcome("get_metadata_and_labels", "returned", NoUid, "",
                                      NoUid, "undecodable"))
            ELSE IF index = 0
            THEN \* gallery[None]
                 /\ read_result' = [read_result EXCEPT ![s] = NoResult]
                 /\ Finish(s, Outcome("get_metadata_and_labels", "returned", NoUid, "",
                                      NoUid, "no_tile"))
            ELSE /\ read_result' = [read_result EXCEPT ![s] =
                        Result(Some(<< The(gallery)[index].metadata,
                                       The(gallery)[index].imageLabels >>), NoUid)]
                 /\ Finish(s, Outcome("get_metadata_and_labels", "returned", NoUid, "",
                                      NoUid, "read"))
    /\ UNCHANGED << store_vars, uploaded, linked, last_update, last_tile_update, login_vars, value_vars, bitmap >>

\* get_annotations: bind, _get_annotation_uid on the decoded gallery, then
\* get_project_item and decode_content; every exception is logged and None
\* is returned.
get_annotations(s, accounts, projects, item_uids, usernames) ==
    /\ pc[s] = "idle"
    /\ calls < MaxCalls
    /\ \E account \in accounts, project_uid \in projects, image_item_uid \in item_uids,
          username \in usernames :
         LET b == update_project_data(s, account, project_uid)
             gallery == _get_gallery(b.project)
             annotation_item_uid ==
                 annotation_uid_from(The(gallery), image_item_uid, username, 1)
             stored == store_items[annotation_item_uid]
             f == [NoFrame EXCEPT !.op = "get_annotations",
                                  !.image_item_uid = image_item_uid,
                                  !.username = username]
         IN
         /\ Bind(s, account, project_uid)
         /\ calls' = calls + 1
         /\ call_entry' = [call_entry EXCEPT ![s] = Entry(f, NoImage, store_items, gallery)]
         /\ read_current' = [read_current EXCEPT ![s] =
                                ReadIsCurrent(get_content(b.project), project_uid)]
         /\ IF IsNone(gallery)
            THEN \* for tile in None
                 /\ read_result' = [read_result EXCEPT ![s] = NoResult]
                 /\ Finish(s, Outcome("get_annotations", "returned", NoUid, "",
                                      NoUid, "undecodable"))
            ELSE IF annotation_item_uid = NoUid
            THEN /\ read_result' = [read_result EXCEPT ![s] = NoResult]
                 /\ Finish(s, Outcome("get_annotations", "returned", NoUid, "",
                                      NoUid, "read"))
            ELSE IF IsNone(stored) \/ The(stored).project_uid # project_uid
            THEN \* get_project_item returned None: item.content
                 /\ read_result' = [read_result EXCEPT ![s] =
                                       Result(None, annotation_item_uid)]
                 /\ Finish(s, Outcome("get_annotations", "returned", NoUid, "",
                                      NoUid, "read"))
            ELSE /\ read_result' = [read_result EXCEPT ![s] =
                        Result(decode_content(The(stored).content), annotation_item_uid)]
                 /\ Finish(s, Outcome("get_annotations", "returned", NoUid, "",
                                      NoUid, "read"))
    /\ UNCHANGED << store_vars, uploaded, linked, last_update, last_tile_update, login_vars, value_vars, bitmap >>

\* The steps a started call takes, whatever its inputs were.
Step(s) ==
    \/ upload_image_item(s)
    \/ _create_gallery_tile(s)
    \/ _create_annotation_item(s)
    \/ _update_annotation_item(s)
    \/ item_transaction(s)
    \/ _update_gallery_tile(s)

\* Two sessions share project pA: uploads of images and of annotations.
Next ==
    \E s \in Sessions :
        \/ upload_image(s, {"acct1"}, {"pA"}, ImageInputs, {EmptyDict})
        \/ upload_annotation(s, {"acct1"}, {"pA"}, {"alice"}, {<< ann_spline >>}, MetadataInputs)
        \/ Step(s)

Spec == Init /\ [][Next]_vars

\* One session fills one annotation item: every annotation list, no metadata.
NextAnnotation ==
    \/ upload_image("s1", {"acct1"}, {"pA"}, {Bitmap}, {EmptyDict})
    \/ upload_annotation("s1", {"acct1"}, {"pA"}, {"alice"}, AnnotationInputs, {EmptyDict})
    \/ Step("s1")

SpecAnnotation == Init /\ [][NextAnnotation]_vars

\* Two sessions move between the two projects and the two accounts.
NextBind ==
    \E s \in Sessions :
        \/ upload_image(s, Accounts, Projects, {Bitmap}, {EmptyDict})
        \/ upload_image_item(s)
        \/ _create_gallery_tile(s)

SpecBind == Init /\ [][NextBind]_vars

\* One session uploads images, then patches and reads their tiles' metadata
\* and labels, by any item uid.
NextMetadata ==
    \/ upload_image("s1", {"acct1"}, {"pA"}, {Bitmap}, {EmptyDict})
    \/ update_metadata_and_labels("s1", {"acct1"}, {"pA"}, Uids, LabelInputs, MetadataPatches)
    \/ update_metadata_and_labels_item("s1")
    \/ get_metadata_and_labels("s1", {"acct1"}, {"pA"}, Uids)
    \/ upload_image_item("s1")
    \/ _create_gallery_tile("s1")
    \/ _update_gallery_tile("s1")

SpecMetadata == Init /\ [][NextMetadata]_vars

\* One session uploads images and links annotation items of two users to
\* their tiles, with or without metadata, and patches the tiles' metadata.
NextLinkage ==
    \/ upload_image("s1", {"acct1"}, {"pA"}, {Bitmap}, {EmptyDict})
    \/ upload_annotation("s1", {"acct1"}, {"pA"}, Usernames, {<< ann_spline >>}, MetadataInputs)
    \/ update_metadata_and_labels("s1", {"acct1"}, {"pA"}, Uids, {None}, MetadataInputs)
    \/ update_metadata_and_labels_item("s1")
    \/ get_metadata_and_labels("s1", {"acct1"}, {"pA"}, Uids)
    \/ Step("s1")

SpecLinkage == Init /\ [][NextLinkage]_vars

\* One session uploads images, links annotation items of two users to them
\* and reads the annotations back.
NextRead ==
    \/ upload_image("s1", {"acct1"}, {"pA"}, {Bitmap}, {EmptyDict})
    \/ upload_annotation("s1", {"acct1"}, {"pA"}, Usernames, {<< ann_spline >>, << ann_box >>}, {EmptyDict})
    \/ get_annotations("s1", {"acct1"}, {"pA"}, Uids, Usernames)
    \/ Step("s1")

SpecRead == Init /\ [][NextRead]_vars

\* The gallery of project pA does not parse as JSON; one session runs every
\* operation that reads it.
InitCorrupt ==
    /\ store_content = [p \in Projects |->
                          IF p = "pA" THEN CorruptBytes ELSE encode_content(<< >>)]
    /\ store_etag = [p \in Projects |-> 0]
    /\ store_items = [u \in Uids |-> None]
    /\ next_uid = 0
    /\ InitSessions
    /\ invitations = << >>
    /\ accept_fails = {}
    /\ accepted = {}
    /\ login_pc = "done"
    /\ login_i = 0
    /\ login_ret = "none"
    /\ InitValues

NextCorrupt ==
    \/ upload_image("s1", {"acct1"}, {"pA"}, {Bitmap}, {EmptyDict})
    \/ upload_annotation("s1", {"acct1"}, {"pA"}, {"alice"}, {<< ann_spline >>}, MetadataInputs)
    \/ update_metadata_and_labels("s1", {"acct1"}, {"pA"}, Uids, {None}, {[k \in {"note"} |-> "n1"]})
    \/ update_metadata_and_labels_item("s1")
    \/ get_metadata_and_labels("s1", {"acct1"}, {"pA"}, Uids)
    \/ get_annotations("s1", {"acct1"}, {"pA"}, Uids, {"alice"})
    \/ upload_image_item("s1")
    \/ _create_gallery_tile("s1")
    \/ _update_gallery_tile("s1")

SpecCorrupt == InitCorrupt /\ [][NextCorrupt]_vars

\* ------------------------------------------- src/gliff/gliff.py (functions)
\* JSON null, as the tile of create_collection_tile holds it.
JsonNull == [null |-> TRUE]

\* The tile create_collection_tile defines.
collection_tile(item_uid, thumbnail, metadata) ==
    [id |-> item_uid,
     thumbnail |-> thumbnail,
     imageLabels |-> << >>,
     metadata |-> metadata,
     imageUID |-> item_uid,
     annotationUID |-> JsonNull,
     auditUID |-> JsonNull]

\* create_image_item up to the item's creation: the type check, then
\* col_mng.fetch(col_uid), the collection the tile is later appended to.
create_image_item(s, projects, images, metadatas) ==
    /\ pc[s] = "idle"
    /\ calls < MaxCalls
    /\ \E col_uid \in projects, image_arg \in images, metadata \in metadatas :
         LET image == image_passed(image_arg)
             image_data == _process_image_data(image)
         IN
         /\ calls' = calls + 1
         /\ bitmap' = bitmap_after(image_arg)
         /\ call_entry' = [call_entry EXCEPT ![s] =
               Entry([NoFrame EXCEPT !.op = "create_image_item", !.metadata = metadata],
                     image, store_items, decode_content(_fetch_project(col_uid).content))]
         /\ IF IsNone(image_data)
            THEN Finish(s, Outcome("create_image_item", "returned", NoUid, "", NoUid, "none"))
            ELSE /\ pc' = [pc EXCEPT ![s] = "create_image_item_batch"]
                 /\ frame' = [frame EXCEPT ![s] =
                       [NoFrame EXCEPT !.op = "create_image_item", !.name = "scan1",
                                       !.metadata = metadata, !.image_data = image_data,
                                       !.collection =
                                           Some([project_uid |-> col_uid,
                                                 project |-> _fetch_project(col_uid)])]]
                 /\ UNCHANGED ret
    /\ UNCHANGED << store_vars, gliff_project, fetches, read_current, uploaded, linked,
                    last_bind, last_update, last_tile_update, read_result, login_vars, value_vars >>

\* item_mng.create and item_mng.batch([item]) of create_image_item.
create_image_item_batch(s) ==
    /\ pc[s] = "create_image_item_batch"
    /\ next_uid < MaxItems
    /\ LET uid == next_uid + 1
           image_data == The(frame[s].image_data)
           item == [project_uid |-> The(frame[s].collection).project_uid,
                    meta |-> [type |-> "gliff.image", name |-> frame[s].name,
                              width |-> image_data.width, height |-> image_data.height],
                    content |-> image_data.encoded_image,
                    etag |-> 1]
       IN /\ next_uid' = uid
          /\ \E answer \in {"ok", "error"} :
               IF answer = "ok"
               THEN /\ store_items' = [store_items EXCEPT ![uid] = Some(item)]
                    /\ pc' = [pc EXCEPT ![s] = "create_collection_tile"]
                    /\ frame' = [frame EXCEPT ![s].item_uid = uid, ![s].item_written = uid]
                    /\ UNCHANGED ret
               ELSE /\ UNCHANGED store_items
                    /\ Finish(s, Outcome("create_image_item", "raised", NoUid, "StoreError", NoUid, "none"))
    /\ UNCHANGED << store_content, store_etag, gliff_project, calls, fetches,
                    read_current, uploaded, linked, last_bind, last_update, call_entry,
                    last_tile_update, read_result, login_vars, value_vars, bitmap >>

\* create_collection_tile with the collection create_image_item fetched,
\* then create_image_item returns item.uid: nothing here catches an exception.
create_collection_tile(s) ==
    /\ pc[s] = "create_collection_tile"
    /\ LET collection == The(frame[s].collection)
           image_data == The(frame[s].image_data)
           uid == frame[s].item_uid
           old_content == decode_content(collection.project.content)
           col_metadata ==
               dict_update([k \in {"imageName", "width", "height"} |->
                               CASE k = "imageName" -> frame[s].name
                                 [] k = "width" -> image_data.width
                                 [] k = "height" -> image_data.height],
                           frame[s].metadata)
           tile == collection_tile(uid, image_data.thumbnail, col_metadata)
       IN /\ read_current' = [read_current EXCEPT ![s] =
                ReadIsCurrent(collection.project.content, collection.project_uid)]
          /\ IF IsNone(old_content)
             THEN \* json.loads
                  /\ UNCHANGED << store_content, store_etag, uploaded >>
                  /\ Finish(s, Outcome("create_image_item", "raised", NoUid, "JSONDecodeError", uid, "undecodable"))
             ELSE \E answer \in TransactionAnswers(collection) :
                  IF answer = "ok"
                  THEN /\ store_content' =
                            [store_content EXCEPT ![collection.project_uid] =
                                encode_content(Append(The(old_content), tile))]
                       /\ store_etag' = [store_etag EXCEPT ![collection.project_uid] = @ + 1]
                       /\ uploaded' = uploaded \cup {uid}
                       /\ Finish(s, Outcome("create_image_item", "returned", uid, "", uid, answer))
                  ELSE /\ UNCHANGED << store_content, store_etag, uploaded >>
                       /\ Finish(s, Outcome("create_image_item", "raised", NoUid, "StoreError", uid, answer))
    /\ UNCHANGED << store_items, next_uid, gliff_project, calls, fetches, linked, last_bind,
                    last_update, call_entry,
                    last_tile_update, read_result, login_vars, value_vars, bitmap >>

\* Two callers of the module-level functions share collection pA.
NextFunctions ==
    \E s \in Sessions :
        \/ create_image_item(s, {"pA"}, ImageInputs, MetadataInputs)
        \/ create_image_item_batch(s)
        \/ create_collection_tile(s)

SpecFunctions == Init /\ [][NextFunctions]_vars

\* One caller keeps a bitmap and uploads it again and again, through the
\* class and through the module-level function.
NextBitmap ==
    \/ upload_image("s1", {"acct1"}, {"pA"}, {CallerBitmap}, MetadataInputs)
    \/ upload_image_item("s1")
    \/ _create_gallery_tile("s1")
    \/ create_image_item("s1", {"pA"}, {CallerBitmap}, MetadataInputs)
    \/ create_image_item_batch("s1")
    \/ create_collection_tile("s1")

SpecBitmap == Init /\ [][NextBitmap]_vars

\* ------------------------------------------------------------------- login
\* The lists of distinct invitations of length n.
RECURSIVE InvitationLists(_)
InvitationLists(n) ==
    IF n = 0 THEN { << >> }
    ELSE { Append(l, i) : l \in { m \in InvitationLists(n - 1) : Len(m) = n - 1 },
                          i \in 1 .. MaxInvitations } \cup InvitationLists(n - 1)

DistinctInvitationLists ==
    { l \in InvitationLists(MaxInvitations) :
        \A i, j \in 1 .. Len(l) : i # j => l[i] # l[j] }

\* An account about to log in: the invitations pending for it in the store,
\* and those the store will refuse to accept.
InitLogin ==
    /\ InitStore
    /\ InitSessions
    /\ invitations \in DistinctInvitationLists
    /\ accept_fails \in SUBSET (1 .. MaxInvitations)
    /\ accepted = {}
    /\ login_pc = "login"
    /\ login_i = 0
    /\ login_ret = "none"
    /\ InitValues

\* login up to the loop: Account.login, then list_incoming.
login ==
    /\ login_pc = "login"
    /\ login_pc' = "_accept_pending_invitations"
    /\ UNCHANGED << store_vars, session_vars, value_vars, invitations, accept_fails, accepted,
                    login_i, login_ret >>

\* One turn of `for invitation in list(invitations.data)`: accept it, and an
\* accept that raises ends the loop and login; after the loop login returns.
_accept_pending_invitations ==
    /\ login_pc = "_accept_pending_invitations"
    /\ IF login_i = Len(invitations)
       THEN /\ login_pc' = "done"
            /\ login_ret' = "account"
            /\ UNCHANGED << accepted, login_i >>
       ELSE LET invitation == invitations[login_i + 1] IN
            IF invitation \in accept_fails
            THEN /\ login_pc' = "done"
                 /\ login_ret' = "raised"
                 /\ UNCHANGED << accepted, login_i >>
            ELSE /\ accepted' = accepted \cup {invitation}
                 /\ login_i' = login_i + 1
                 /\ UNCHANGED << login_pc, login_ret >>
    /\ UNCHANGED << store_vars, session_vars, value_vars, invitations, accept_fails >>

NextLogin == login \/ _accept_pending_invitations

SpecLogin == InitLogin /\ [][NextLogin]_vars

\* --------------------------------------------------------------- get_value
\* Any combination of definitions of the names: a global is missing, None
\* or a value; the environment and the .env file hold a value or not.
InitValue ==
    /\ InitStore
    /\ InitSessions
    /\ invitations = << >>
    /\ accept_fails = {}
    /\ accepted = {}
    /\ login_pc = "done"
    /\ login_i = 0
    /\ login_ret = "none"
    /\ defined \in [globals : [Names -> {Absent, PyNone, "passed"}],
                     environ : [Names -> {Absent, "from_environ"}],
                     dotenv : [Names -> {Absent, "from_dotenv"}]]
    /\ value_ret = NoValue

get_value(names) ==
    /\ \E env_variable \in names : value_ret' = Gliff_get_value(defined, env_variable)
    /\ UNCHANGED << store_vars, session_vars, login_vars, defined >>

NextValue == get_value(Names)

SpecValue == InitValue /\ [][NextValue]_vars

\* ================================================================ properties
\* The gallery the store holds for project p, decoded.
StoredGallery(p) == The(decode_content(store_content[p]))
TileIndices(gallery, id) == { i \in 1 .. Len(gallery) : gallery[i].id = id }
TileIds(gallery) == { gallery[i].id : i \in 1 .. Len(gallery) }
ProjectOfItem(uid) == The(store_items[uid]).project_uid
Last(seq) == seq[Len(seq)]
Front(seq) == SubSeq(seq, 1, Len(seq) - 1)

\* C1: every uid upload_image has returned has exactly one tile in the stored
\* gallery of its project, and _find_gallery_tile returns that tile's index.
C1_TileUniqueness ==
    \A uid \in uploaded :
        LET gallery == StoredGallery(ProjectOfItem(uid)) IN
        /\ Cardinality(TileIndices(gallery, uid)) = 1
        /\ _find_gallery_tile(gallery, uid) \in TileIndices(gallery, uid)

\* C2: an update of an annotation item whose stored list ends with a
\* non-empty annotation stores the whole previous list followed by the
\* uploaded annotations.
C2_NonEmptyLastKept ==
    \/ IsNone(last_update)
    \/ LET u == The(last_update) IN
       ~ is_empty_annotation(Last(u.prev))
           => The(decode_content(The(store_items[u.uid]).content)) = u.prev \o u.annotations

\* C3: an update of an annotation item whose stored list ends with an empty
\* annotation stores the previous list without that last annotation,
\* followed by the uploaded annotations.
C3_EmptyLastDropped ==
    \/ IsNone(last_update)
    \/ LET u == The(last_update) IN
       is_empty_annotation(Last(u.prev))
           => The(decode_content(The(store_items[u.uid]).content))
                  = Front(u.prev) \o u.annotations

\* An update has replaced [ann_box, empty_ann] by [ann_box] and the upload.
C3_Witness ==
    /\ ~ IsNone(last_update)
    /\ The(last_update).prev = << ann_box, empty_ann >>
    /\ The(last_update).annotations = << ann_spline >>
    /\ The(decode_content(The(store_items[The(last_update).uid]).content))
           = << ann_box, ann_spline >>

\* Each session has finished one gallery-mutating call, one of them an
\* upload_image, both returned normally, and the store answered each commit
\* by accepting it or by refusing it as a conflict.
TwoMutationsFinished ==
    /\ calls = 2
    /\ \A s \in Sessions :
         /\ pc[s] = "idle"
         /\ ret[s].kind = "returned"
         /\ ret[s].gallery \in {"ok", "conflict"}
    /\ \E s \in Sessions : ret[s].op = "upload_image"

MutationsReflected ==
    /\ \A uid \in uploaded : TileIndices(StoredGallery(ProjectOfItem(uid)), uid) # {}
    /\ \A l \in linked :
         LET gallery == StoredGallery(ProjectOfItem(l[3])) IN
         \A i \in TileIndices(gallery, l[1]) :
             /\ l[2] \in DOMAIN gallery[i].annotationUID
             /\ gallery[i].annotationUID[l[2]] = l[3]

\* C4: when two sessions have each finished a mutation of the same gallery,
\* the stored gallery reflects both, and no step removes a stored tile.
C4_NoLostMutation ==
    [][ /\ (TwoMutationsFinished => MutationsReflected)'
        /\ \A p \in Projects : TileIds(StoredGallery(p)) \subseteq TileIds(StoredGallery(p)') ]_vars

\* C5: a call whose gallery commit the store refused, and which did not get
\* it accepted on a retry, ends with ConcurrentModificationError.
C5_RejectedCommitReported ==
    \A s \in Sessions :
        ret[s].gallery = "conflict"
            => ret[s].kind = "raised" /\ ret[s].error = "ConcurrentModificationError"

\* C6: a call that wrote its new item and whose gallery update then failed
\* ends with PartialWriteError carrying the item's uid.
C6_PartialWriteReported ==
    \A s \in Sessions :
        (ret[s].op \in {"upload_image", "upload_annotation"}
           /\ ret[s].item_written # NoUid /\ ret[s].gallery # "ok")
            => /\ ret[s].kind = "raised"
               /\ ret[s].error = "PartialWriteError"
               /\ ret[s].value = ret[s].item_written

\* C7: every gallery a session decodes is the content the store holds at
\* that moment: what any session has committed by then is in it.
C7_ReadsStoredContent == \A s \in Sessions : read_current[s]

\* C8 as claimed: a session that binds with one account fetches a project
\* at most once per project uid.
C8_FetchedOncePerUid ==
    \A s \in Sessions, a \in Accounts :
        (\A other \in Accounts \ {a}, p \in Projects : fetches[s][other][p] = 0)
            => \A p \in Projects : fetches[s][a][p] <= 1

\* The (account, project uid) pair a session is bound to, None if unbound.
BoundPair(o) == IF IsNone(o) THEN None ELSE << The(o).account, The(o).project_uid >>

\* C8 as amended: a bind fetches the project exactly when it changes the
\* pair the session is bound to; it then fetches that project once, and the
\* session holds the collection as the store has it at that moment.
C8_FetchIffPairChanges ==
    [][ \A s \in Sessions :
          /\ (BoundPair(gliff_project'[s]) # BoundPair(gliff_project[s]))
                 <=> (fetches'[s] # fetches[s])
          /\ fetches'[s] # fetches[s] =>
                LET self == The(gliff_project'[s]) IN
                /\ fetches'[s] = [fetches[s] EXCEPT ![self.account][self.project_uid] = @ + 1]
                /\ self.project = _fetch_project(self.project_uid) ]_vars

\* A session that binds with one account has fetched project pA twice, with
\* a fetch of pB in between.
C8_Witness ==
    \E s \in Sessions, a \in Accounts :
        /\ \A other \in Accounts \ {a}, p \in Projects : fetches[s][other][p] = 0
        /\ fetches[s][a]["pA"] = 2
        /\ fetches[s][a]["pB"] = 1

\* C9: update_project_data called with the pair the session is bound to
\* performs no fetch and leaves the Project object as it was.
C9_RebindIsNoOp ==
    [][ \A s \in Sessions :
          (/\ calls' = calls + 1
           /\ last_bind'.session = s
           /\ BoundPair(gliff_project[s]) = << last_bind'.account, last_bind'.project_uid >>)
              => /\ fetches'[s] = fetches[s]
                 /\ gliff_project'[s] = gliff_project[s] ]_vars

\* A session was bound again to the pair it held, while the store's content
\* of that project had moved on from the collection the session holds.
C9_Witness ==
    /\ last_bind.session \in Sessions
    /\ ~ last_bind.fetched
    /\ get_content(The(gliff_project[last_bind.session])) # store_content[last_bind.project_uid]

\* C10: when login has ended, every pending invitation whose acceptance
\* does not fail has been accepted.
C10_OthersAccepted ==
    login_pc = "done" =>
        \A i \in 1 .. Len(invitations) :
            invitations[i] \notin accept_fails => invitations[i] \in accepted

\* The tile the latest accepted tile update wrote, as the store holds it.
StoredTile(u) == StoredGallery(u.project_uid)[u.index]

\* C11: in the step where a tile update is accepted, the metadata of the tile
\* the store then holds has the patch's value for every key of the patch, the
\* old value for every key only the old metadata has, and no other key.
C11_MetadataMergedShallowly ==
    [][ (last_tile_update' # last_tile_update) =>
          LET u == The(last_tile_update')
              old == u.before.metadata
              patch == u.tile_data.metadata
              new == The(decode_content(store_content'[u.project_uid]))[u.index].metadata
          IN /\ DOMAIN new = (DOMAIN old) \cup (DOMAIN patch)
             /\ \A k \in DOMAIN patch : new[k] = patch[k]
             /\ \A k \in (DOMAIN old) \ (DOMAIN patch) : new[k] = old[k] ]_vars

\* update_metadata_and_labels has renamed an image: imageName is the patch's,
\* width and height are those upload_image stored.
C11_Witness ==
    /\ ~ IsNone(last_tile_update)
    /\ LET u == The(last_tile_update) IN
       /\ u.before.metadata.imageName = "scan1"
       /\ u.tile_data.metadata = [k \in {"imageName"} |-> "renamed"]
       /\ StoredTile(u).metadata.imageName = "renamed"
       /\ StoredTile(u).metadata.width = 200
       /\ StoredTile(u).metadata.height = 100

\* The users a tile holds an entry for, in each of its per-user mappings.
LinkedUsers(tile) ==
    << DOMAIN tile.annotationUID, DOMAIN tile.annotationComplete, DOMAIN tile.auditUID >>

\* C12: no step removes a username from the annotationUID, the
\* annotationComplete or the auditUID mapping of a stored tile.
C12_UsersNeverRemoved ==
    [][ \A p \in Projects :
          ~ IsNone(decode_content(store_content[p])) =>
            LET before == StoredGallery(p)
                after == The(decode_content(store_content'[p]))
            IN /\ Len(before) <= Len(after)
               /\ \A i \in 1 .. Len(before) :
                     \A m \in 1 .. 3 :
                        LinkedUsers(before[i])[m] \subseteq LinkedUsers(after[i])[m] ]_vars

\* A tile linked to alice's annotation item has been linked to bob's too.
C12_Witness ==
    /\ ~ IsNone(last_tile_update)
    /\ LET u == The(last_tile_update) IN
       /\ DOMAIN u.before.annotationUID = {"alice"}
       /\ DOMAIN u.tile_data.annotationUID = {"bob"}
       /\ DOMAIN StoredTile(u).annotationUID = {"alice", "bob"}
       /\ StoredTile(u).annotationUID["alice"] = u.before.annotationUID["alice"]
       /\ DOMAIN StoredTile(u).annotationComplete = {"alice", "bob"}

\* The call session s started last has returned normally, and it was an op.
Returned(s, op) == pc[s] = "idle" /\ ret[s].op = op /\ ret[s].kind = "returned"

\* The items the store holds now and did not hold when s started its call.
NewItems(s) ==
    { u \in Uids : IsNone(call_entry[s].store_items[u]) /\ ~ IsNone(store_items[u]) }

\* The tiles of the gallery the call held at its start whose id is the
\* call's image item uid, and those of them that hold an entry for its user.
EntryTiles(e) ==
    IF IsNone(e.gallery) THEN {}
    ELSE { i \in 1 .. Len(The(e.gallery)) : The(e.gallery)[i].id = e.image_item_uid }
EntryLinkedTiles(e) ==
    { i \in EntryTiles(e) : e.username \in DOMAIN The(e.gallery)[i].annotationUID }

EndsWith(seq, tail) ==
    /\ Len(seq) >= Len(tail)
    /\ SubSeq(seq, Len(seq) - Len(tail) + 1, Len(seq)) = tail

\* C14: an upload_annotation that has returned returns the uid of the item
\* that holds the uploaded annotations; when the tile held an entry for the
\* user at the call's start, that uid is the entry's and no item is new.
C14_ExistingItemReused ==
    \A s \in Sessions :
        LET e == call_entry[s]
            uid == ret[s].value
        IN Returned(s, "upload_annotation")
            => /\ uid # NoUid
               /\ ~ IsNone(store_items[uid])
               /\ EndsWith(The(decode_content(The(store_items[uid]).content)), e.annotations)
               /\ \A i \in EntryLinkedTiles(e) :
                     /\ uid = The(e.gallery)[i].annotationUID[e.username]
                     /\ NewItems(s) = {}
                     /\ ret[s].item_written = NoUid

\* A second upload by the same user has returned the uid of the first.
C14_Witness ==
    /\ Returned("s1", "upload_annotation")
    /\ EntryLinkedTiles(call_entry["s1"]) # {}
    /\ ret["s1"].value = 2
    /\ NewItems("s1") = {}
    /\ The(store_items[2]).meta.type = "gliff.annotation"

\* Session s is in the update branch of upload_annotation.
InUpdateBranch(s) ==
    /\ frame[s].op = "upload_annotation"
    /\ \/ pc[s] \in {"_update_annotation_item", "item_transaction"}
       \/ pc[s] = "_update_gallery_tile" /\ frame[s].item_written = NoUid

\* C15: a step of the update branch of upload_annotation writes the gallery
\* only when metadata is given, and the tile it then stores is the tile it
\* read with the metadata merged in: annotationUID, annotationComplete,
\* auditUID, imageLabels, id and thumbnail are the same.
C15_UpdateKeepsLinkage ==
    [][ \A s \in Sessions :
          InUpdateBranch(s) =>
            /\ frame[s].metadata = EmptyDict =>
                  /\ store_content' = store_content
                  /\ pc'[s] # "_update_gallery_tile"
            /\ store_content' # store_content =>
                  LET u == The(last_tile_update')
                      stored == The(decode_content(store_content'[u.project_uid]))
                  IN stored[u.index] =
                        [u.before EXCEPT !.metadata = dict_update(@, frame[s].metadata)] ]_vars

\* The update branch has merged a note into the metadata of a tile that
\* holds alice's annotation item.
C15_Witness ==
    /\ Returned("s1", "upload_annotation")
    /\ ret["s1"].item_written = NoUid
    /\ ret["s1"].gallery = "ok"
    /\ ~ IsNone(last_tile_update)
    /\ LET u == The(last_tile_update) IN
       /\ "note" \notin DOMAIN u.before.metadata
       /\ "note" \in DOMAIN StoredTile(u).metadata
       /\ DOMAIN StoredTile(u).annotationUID = {"alice"}
       /\ StoredTile(u).annotationUID = u.before.annotationUID

\* The call session s started last has ended, and it was an op that read a
\* gallery that decodes and holds no tile for the call's image item uid.
EndedWithoutTile(s, op) ==
    /\ pc[s] = "idle"
    /\ ret[s].op = op
    /\ ~ IsNone(call_entry[s].gallery)
    /\ EntryTiles(call_entry[s]) = {}

\* C16: update_metadata_and_labels (with labels or metadata) and
\* get_metadata_and_labels end with TileNotFoundError when no tile of the
\* gallery has the given item uid.
C16_TileNotFoundReported ==
    \A s \in Sessions :
        (\/ EndedWithoutTile(s, "update_metadata_and_labels")
         \/ EndedWithoutTile(s, "get_metadata_and_labels"))
            => ret[s].kind = "raised" /\ ret[s].error = "TileNotFoundError"

\* C17: an update_metadata_and_labels whose tile update was not applied
\* leaves the image item as the store held it when the call started.
C17_NoPartialApplication ==
    \A s \in Sessions :
        (/\ pc[s] = "idle"
         /\ ret[s].op = "update_metadata_and_labels"
         /\ ret[s].gallery \in {"no_tile", "undecodable", "error", "conflict"})
            => store_items[call_entry[s].image_item_uid]
                   = call_entry[s].store_items[call_entry[s].image_item_uid]

\* C18: an upload_annotation for an image item uid no tile has ends with a
\* failure and has created no item.
C18_MissingTileReported ==
    \A s \in Sessions :
        EndedWithoutTile(s, "upload_annotation")
            => ret[s].kind = "raised" /\ NewItems(s) = {}

\* C19: a call that met a gallery that does not decode ends with
\* DecodeError, and the stored content stays as it is.
C19_DecodeErrorSurfaced ==
    /\ \A s \in Sessions :
          ret[s].gallery = "undecodable"
              => ret[s].kind = "raised" /\ ret[s].error = "DecodeError"
    /\ store_content["pA"] = CorruptBytes

\* C20: upload_image with an image that is neither a bitmap nor a string
\* ends with InvalidImageError.
C20_InvalidImageReported ==
    \A s \in Sessions :
        (/\ pc[s] = "idle"
         /\ ret[s].op = "upload_image"
         /\ call_entry[s].image.kind \notin {"pil", "str"})
            => ret[s].kind = "raised" /\ ret[s].error = "InvalidImageError"

\* The uids the gallery a call held at its start has for the call's image
\* and user.
EntryLinkedUids(e) ==
    { The(e.gallery)[i].annotationUID[e.username] : i \in EntryLinkedTiles(e) }

\* C21: a get_annotations over a gallery with no annotationUID entry for
\* the image and user returns None and fetches no item; with an entry it
\* fetches the item the entry names and returns its decoded content.
C21_AnnotationsOfLinkedItem ==
    \A s \in Sessions :
        (/\ pc[s] = "idle"
         /\ ret[s].op = "get_annotations"
         /\ ~ IsNone(call_entry[s].gallery))
            => /\ ret[s].kind = "returned"
               /\ IF EntryLinkedTiles(call_entry[s]) = {}
                  THEN read_result[s] = Result(None, NoUid)
                  ELSE /\ read_result[s].item_fetched \in EntryLinkedUids(call_entry[s])
                       /\ ~ IsNone(store_items[read_result[s].item_fetched])
                       /\ read_result[s].value =
                              Some(The(store_items[read_result[s].item_fetched]).content.doc)

\* get_annotations has returned the annotations bob uploaded for image 1.
C21_Witness ==
    /\ Returned("s1", "get_annotations")
    /\ call_entry["s1"].username = "bob"
    /\ EntryLinkedTiles(call_entry["s1"]) # {}
    /\ read_result["s1"].item_fetched # NoUid
    /\ read_result["s1"].value = Some(<< ann_box >>)

\* The metadata an image-upload call gives its tile: name, width and
\* height of the image as passed, overlaid with the caller's metadata.
EntryTileMetadata(e) ==
    dict_update([k \in {"imageName", "width", "height"} |->
                    CASE k = "imageName" -> "scan1"
                      [] k = "width" -> e.image.width
                      [] k = "height" -> e.image.height],
                e.metadata)

\* Session s has ended an image upload of the given op whose tile the
\* store accepted.
TileAppended(s, op) ==
    /\ Returned(s, op)
    /\ ret[s].gallery = "ok"
    /\ ret[s].value # NoUid

\* C22: the tile an image upload (upload_image, create_image_item) has
\* appended has the new item's uid as id, the given labels, the image's
\* name, width and height overlaid with the caller's metadata, and empty
\* annotationUID, auditUID and annotationComplete mappings.
C22_AppendedTileShape ==
    \A s \in Sessions :
        (TileAppended(s, "upload_image") \/ TileAppended(s, "create_image_item"))
            => LET p == ProjectOfItem(ret[s].value)
                   e == call_entry[s]
               IN /\ TileIndices(StoredGallery(p), ret[s].value) # {}
                  /\ \A i \in TileIndices(StoredGallery(p), ret[s].value) :
                        LET tile == StoredGallery(p)[i] IN
                        /\ tile.imageLabels = e.image_labels
                        /\ tile.metadata = EntryTileMetadata(e)
                        /\ {"annotationUID", "auditUID", "annotationComplete"} \subseteq DOMAIN tile
                        /\ tile.annotationUID = EmptyDict
                        /\ tile.auditUID = EmptyDict
                        /\ tile.annotationComplete = EmptyDict

\* Neither the globals nor the environment nor the .env file define name.
Undefined(name) ==
    /\ defined.globals[name] = Absent
    /\ defined.environ[name] = Absent
    /\ defined.dotenv[name] = Absent

\* C23: get_value of a name nothing defines ends with UndefinedValueError
\* and the message "<name> not found.".
C23_UndefinedValueRaised ==
    (value_ret.kind # "none" /\ Undefined(value_ret.name))
        => /\ value_ret.kind = "raised"
           /\ value_ret.error = "UndefinedValueError"
           /\ value_ret.text = " not found."

\* get_value("TEST_VARIABLE") has raised while nothing defined the name and
\* another name was defined.
C23_Witness ==
    /\ value_ret.name = "TEST_VARIABLE"
    /\ value_ret.kind = "raised"
    /\ Undefined("TEST_VARIABLE")
    /\ defined.environ["GLIFF_SERVER"] # Absent

\* C24: in the step where a tile update is accepted, the imageLabels of the
\* tile the store then holds are the patch's list when the patch has one,
\* and the tile's old list when the patch has none.
C24_LabelsReplacedWhole ==
    [][ (last_tile_update' # last_tile_update) =>
          LET u == The(last_tile_update')
              patch == u.tile_data.imageLabels
              new == The(decode_content(store_content'[u.project_uid]))[u.index].imageLabels
          IN IF IsNone(patch) THEN new = u.before.imageLabels ELSE new = The(patch) ]_vars

\* A tile labelled "cat" has been given the empty list together with a note,
\* and the store holds it without labels.
C24_Witness ==
    /\ ~ IsNone(last_tile_update)
    /\ LET u == The(last_tile_update) IN
       /\ u.before.imageLabels = << "cat" >>
       /\ u.tile_data.imageLabels = Some(<< >>)
       /\ StoredTile(u).imageLabels = << >>
       /\ "note" \in DOMAIN StoredTile(u).metadata

\* C25: the step of _update_gallery_tile whose commit the store accepts
\* stores a gallery as long as the one the step read, with the same id and
\* thumbnail at every position and with every tile of another id as it
\* was; the step that finds no tile leaves the stored content as it is.
C25_UpdateChangesMatchedTileOnly ==
    [][ \A s \in Sessions :
          (pc[s] = "_update_gallery_tile" /\ pc'[s] = "idle") =>
            LET self == The(gliff_project[s])
                read == The(_get_gallery(self))
                after == The(decode_content(store_content'[self.project_uid]))
            IN /\ ret'[s].gallery = "ok" =>
                     /\ Len(after) = Len(read)
                     /\ \A i \in 1 .. Len(read) :
                           /\ after[i].id = read[i].id
                           /\ after[i].thumbnail = read[i].thumbnail
                           /\ read[i].id # frame[s].image_item_uid => after[i] = read[i]
               /\ ret'[s].gallery = "no_tile" => store_content' = store_content ]_vars

\* The second of two tiles has been patched with a note; the first has none.
C25_Witness ==
    /\ ~ IsNone(last_tile_update)
    /\ The(last_tile_update).index = 2
    /\ Len(StoredGallery("pA")) = 2
    /\ "note" \in DOMAIN StoredGallery("pA")[2].metadata
    /\ "note" \notin DOMAIN StoredGallery("pA")[1].metadata

\* The annotation items the gallery a call held at its start names for the
\* call's image and user, whose stored list was empty when the call started.
EntryEmptyItems(e) ==
    { u \in EntryLinkedUids(e) :
        /\ ~ IsNone(e.store_items[u])
        /\ decode_content(The(e.store_items[u]).content) = Some(<< >>) }

\* C26: an upload_annotation that finds an annotation item with an empty
\* stored list, and whose item write the store does not refuse, returns
\* the item's uid and leaves the item with exactly the new annotations.
C26_EmptyStoredListUpdated ==
    \A s \in Sessions :
        (/\ pc[s] = "idle"
         /\ ret[s].op = "upload_annotation"
         /\ ret[s].error # "StoreError"
         /\ EntryEmptyItems(call_entry[s]) # {})
            => /\ ret[s].kind = "returned"
               /\ ret[s].value \in EntryEmptyItems(call_entry[s])
               /\ decode_content(The(store_items[ret[s].value]).content)
                      = Some(call_entry[s].annotations)

\* C27: the bitmap a caller keeps has the size it was made with, and every
\* tile stored for an upload of it has that width and height.
C27_BitmapNotModified ==
    /\ bitmap = Bitmap
    /\ \A i \in 1 .. Len(StoredGallery("pA")) :
          /\ StoredGallery("pA")[i].metadata.width = Bitmap.width
          /\ StoredGallery("pA")[i].metadata.height = Bitmap.height

\* C28: of the annotation items upload_annotation has created for images
\* the stored gallery has a tile for, no two are for the same image and user.
C28_OneItemPerPair ==
    \A a, b \in linked :
        (/\ a[1] \in TileIds(StoredGallery("pA"))
         /\ a[1] = b[1]
         /\ a[2] = b[2])
            => a[3] = b[3]

\* The store holds an item with this uid.
Committed(uid) == uid \in DOMAIN store_items /\ ~ IsNone(store_items[uid])

\* C29: every tile id and every annotationUID value of the stored gallery
\* of a project is the uid of an item the store holds.
C29_GalleryNamesCommittedItems ==
    \A p \in Projects :
        \A i \in 1 .. Len(StoredGallery(p)) :
            LET tile == StoredGallery(p)[i] IN
            /\ Committed(tile.id)
            /\ \A u \in DOMAIN tile.annotationUID : Committed(tile.annotationUID[u])

\* An item write has failed, its uid names no item, and the stored gallery
\* links a tile to an annotation item created after it.
C29_Witness ==
    /\ \E s \in Sessions : ret[s].kind = "raised" /\ ret[s].error = "StoreError"
    /\ \E u \in Uids : u < next_uid /\ ~ Committed(u)
    /\ \E i \in 1 .. Len(StoredGallery("pA")) :
          \E u \in DOMAIN StoredGallery("pA")[i].annotationUID :
              Committed(StoredGallery("pA")[i].annotationUID[u])

\* C30: the step of a gallery write whose commit the store does not accept
\* leaves the session's cached project content as it was before the step.
C30_FailedChangeNotKept ==
    [][ \A s \in Sessions :
          (/\ pc[s] \in {"_create_gallery_tile", "_update_gallery_tile"}
           /\ pc'[s] = "idle"
           /\ ret'[s].gallery \in {"error", "conflict"})
              => get_content(The(gliff_project'[s])) = get_content(The(gliff_project[s])) ]_vars

====
